---- MODULE Spec2Model ----
(***************************************************************************)
(* A model of the AntSDR DJI DroneID receivers:                            *)
(*   dji_receiver.py   TCP frames -> decode -> fallback -> JSON over ZMQ   *)
(*   djidrone_cot.py   TCP frames -> decode -> CoT XML over UDP            *)
(*                                                                         *)
(* Representation.  A byte string is a sequence of integers 0..255, a text *)
(* string a sequence of code points.  A double is a fixed-point integer    *)
(* (coordinates in tenths of a degree, speeds in cm/s); its 8-byte image   *)
(* on the wire is the little-endian two's complement of that integer, so   *)
(* packing and unpacking are real conversions on bytes and every slice,    *)
(* offset and length is the one of the source.                             *)
(***************************************************************************)
EXTENDS Integers, Sequences, FiniteSets, TLC

VARIABLES
    pc,                 \* dji_receiver.tcp_client: where the worker is
    wire,               \* bytes the peer has sent on the open connection, unread
    peer,               \* the AntSDR end of the connection: "none", "up", "closed"
    _last_sensor_gps,   \* the cached monitor position <<lat, lon, alt>>, or None
    monq,               \* monitor messages pending on the SUB socket
    published,          \* every JSON message list sent on the XPUB socket, in order
    sent,               \* history: frames the peer sent on this connection
    handed,             \* history: what parse_frame returned on this connection
    why,                \* history: how the last connection ended
    slept,              \* history: a sleep(5) happened since the connection ended
    budget,             \* frames the peer may still send (bounds the model)
    reads,              \* reads that may still return bytes (bounds the model)
    feeds,              \* messages the monitor may still publish (bounds the model)
    frame,              \* what the last recv(1024) returned
    decoded,            \* parse_data_1 has run on data
    data,               \* the payload last given to parse_data_1
    parsed_data,        \* what parse_data_1 returned for it
    zmq_message_list,   \* what format_as_zmq_json returned for it
    cot_pc,             \* djidrone_cot.tcp_client: where the worker is
    cot_wire,           \* bytes unread on the CoT worker's connection
    cot_peer,           \* the peer of the CoT worker's connection
    cot_budget,         \* frames that peer may still send (bounds the model)
    cot_sent,           \* every CoT event handed to send_cot_payload, in order
    utcnow              \* the clock datetime.utcnow() reads, in milliseconds

vars == <<pc, wire, peer, _last_sensor_gps, monq, published, sent, handed, why,
          slept, budget, reads, feeds, frame, decoded, data, parsed_data, zmq_message_list,
          cot_pc, cot_wire, cot_peer, cot_budget, cot_sent, utcnow>>

jsonVars == <<pc, wire, peer, published, sent, handed, why, slept, budget, reads,
              frame>>
fmtVars  == <<decoded, data, parsed_data, zmq_message_list>>
monVars  == <<_last_sensor_gps, monq, feeds>>
cotVars  == <<cot_pc, cot_wire, cot_peer, cot_budget, cot_sent, utcnow>>

----------------------------------------------------------------------------
(* Bounds of the model *)

MaxFrames  == 2     \* frames the peer sends in one run of the worker
MaxReads   == 2     \* reads that return bytes in one run of the worker
SmallRead  == 4     \* reads of 1..SmallRead bytes are tried, besides whole frames
MaxMonitor == 1     \* monitor messages published in one run of the worker
MaxBacklog == 3     \* monitor messages published when the poll is checked alone
MaxPending == 6     \* monitor messages published when the backlog is checked
MaxCotFrames == 2   \* frames the peer sends to the CoT worker
TickMs == 500       \* the clock advances in steps of TickMs milliseconds
MaxClock == 1000    \* and is not followed beyond MaxClock milliseconds

----------------------------------------------------------------------------
(* Program constants *)

MAX_HORIZONTAL_SPEED == 20000      \* 200.0 m/s, in cm/s
RECV_SIZE == 1024
DRAIN == 5
STALE_SECONDS == 75
None == <<>>

Min(a, b) == IF a < b THEN a ELSE b

\* Text as code points
Str_drone_alert == <<100, 114, 111, 110, 101, 45, 97, 108, 101, 114, 116>>
Str_alert_suffix == <<32, 40, 97, 108, 101, 114, 116, 41>>
Str_Mavic == <<77, 97, 118, 105, 99, 32, 51>>
ALERT_ID == Str_drone_alert
REPLACEMENT == 65533

----------------------------------------------------------------------------
(* Python's bytes and struct *)

\* s[a:b] for 0 <= a
Slice(s, a, b) == SubSeq(s, a + 1, Min(b, Len(s)))

Repeat(x, n) == [i \in 1..n |-> x]

\* struct.unpack raises struct.error unless the buffer has exactly the size
CanUnpack(b, size) == Len(b) = size

Signed16(u) == IF u >= 32768 THEN u - 65536 ELSE u

\* struct.unpack('<H', b)[0]
UnpackH(b) == b[1] + 256 * b[2]

\* struct.unpack('<h', b)[0]
Unpackh(b) == Signed16(b[1] + 256 * b[2])

\* struct.unpack('<d', b)[0], on the fixed-point image of a double
UnpackD(b) == Signed16(b[1] + 256 * b[2])

PackH(v) == <<v % 256, (v \div 256) % 256>>
Packh(v) == PackH(v % 65536)
PackD(v) == PackH(v % 65536) \o Repeat(IF v < 0 THEN 255 ELSE 0, 6)

\* bytes.decode('utf-8', errors='replace'), on ASCII bytes and the invalid byte 0xFF
DecodeReplace(b) == [i \in 1..Len(b) |-> IF b[i] >= 128 THEN REPLACEMENT ELSE b[i]]

\* bytes.decode('utf-8') raises UnicodeDecodeError on an invalid byte
CanDecodeStrict(b) == \A i \in 1..Len(b) : b[i] < 128

RECURSIVE RStripNul(_)
RStripNul(s) ==
    IF s # <<>> /\ s[Len(s)] = 0 THEN RStripNul(SubSeq(s, 1, Len(s) - 1)) ELSE s

\* str.isspace for one character: \t \n \v \f \r, \x1c..\x1f, space
IsSpace(c) == c \in (9..13) \cup (28..32)

RECURSIVE RStripSpace(_)
RStripSpace(s) ==
    IF s # <<>> /\ IsSpace(s[Len(s)]) THEN RStripSpace(SubSeq(s, 1, Len(s) - 1)) ELSE s

RECURSIVE LStripSpace(_)
LStripSpace(s) ==
    IF s # <<>> /\ IsSpace(s[1]) THEN LStripSpace(SubSeq(s, 2, Len(s))) ELSE s

\* str.strip()
Strip(s) == LStripSpace(RStripSpace(s))

\* floor(sqrt(n)) by bisection: (x ** 0.5) on fixed-point values
RECURSIVE SqrtBetween(_, _, _)
SqrtBetween(n, lo, hi) ==
    IF lo >= hi THEN lo
    ELSE LET mid == (lo + hi + 1) \div 2
         IN  IF mid * mid <= n THEN SqrtBetween(n, mid, hi)
             ELSE SqrtBetween(n, lo, mid - 1)

Sqrt(n) == SqrtBetween(n, 0, 46340)

----------------------------------------------------------------------------
(* dji_receiver.py: the pure functions *)

\* parse_frame: frame[2] raises IndexError on a frame of fewer than 3 bytes
\* (not caught here); struct.error on frame[3:5] is caught and gives
\* (None, None); otherwise (package_type, frame[5:package_length]).
parse_frame(fr) ==
    IF Len(fr) < 3 THEN [result |-> "IndexError"]
    ELSE IF ~CanUnpack(Slice(fr, 3, 5), 2) THEN [result |-> "None"]
    ELSE LET package_length == UnpackH(Slice(fr, 3, 5))
         IN  [result |-> "ok",
              package_type |-> fr[3],
              data |-> Slice(fr, 5, 5 + package_length - 5)]

EmptyDict == [k \in {} |-> 0]

IsEmptyDict(d) == DOMAIN d = {}

\* The slices parse_data_1 unpacks: <<first, last, size>>
FieldSlices ==
    {<<129, 137, 8>>, <<137, 145, 8>>, <<145, 153, 8>>, <<153, 161, 8>>,
     <<161, 169, 8>>, <<169, 177, 8>>, <<177, 185, 8>>, <<185, 193, 8>>,
     <<193, 201, 8>>, <<201, 209, 8>>, <<209, 217, 8>>, <<217, 225, 8>>,
     <<225, 227, 2>>}

\* No struct.unpack of parse_data_1 raises struct.error on d
UnpacksAll(d) == \A f \in FieldSlices : CanUnpack(Slice(d, f[1], f[2]), f[3])

InRange(lat, lon) == -900 <= lat /\ lat <= 900 /\ -1800 <= lon /\ lon <= 1800

\* A variant that measures the serial number without trimming it
SerialFallback_untrimmed(serial_number) ==
    IF Len(serial_number) < 5 THEN ALERT_ID ELSE serial_number

\* parse_data_1, lines 136-139: the serial fallback
SerialFallback(serial_number) ==
    IF Len(Strip(serial_number)) < 5 THEN ALERT_ID ELSE serial_number

\* A variant that clamps an excessive speed to the maximum instead of resetting it
HorizontalSpeed_clamped(speed_e, speed_n) ==
    LET horizontal_speed == Sqrt(speed_e * speed_e + speed_n * speed_n)
    IN  IF horizontal_speed > MAX_HORIZONTAL_SPEED THEN MAX_HORIZONTAL_SPEED
        ELSE horizontal_speed

\* parse_data_1, lines 129-130 and 158-161: the horizontal speed and its fallback
HorizontalSpeed(speed_e, speed_n) ==
    LET horizontal_speed == Sqrt(speed_e * speed_e + speed_n * speed_n)
    IN  IF horizontal_speed > MAX_HORIZONTAL_SPEED THEN 0 ELSE horizontal_speed

\* parse_data_1, lines 146-156: an out-of-range pilot or home pair is zeroed
ZeroIfOutOfRange(lat, lon) == IF ~InRange(lat, lon) THEN <<0, 0>> ELSE <<lat, lon>>

\* parse_data_1, lines 97-179: the body of the try block, when no unpack raises
parse_data_1_body(d) ==
         LET serial_number == RStripNul(DecodeReplace(Slice(d, 0, 64)))
             device_type   == RStripNul(DecodeReplace(Slice(d, 64, 128)))
             app   == ZeroIfOutOfRange(UnpackD(Slice(d, 129, 137)),
                                       UnpackD(Slice(d, 137, 145)))
             home  == ZeroIfOutOfRange(UnpackD(Slice(d, 177, 185)),
                                       UnpackD(Slice(d, 185, 193)))
             speed_e == UnpackD(Slice(d, 201, 209))
             speed_n == UnpackD(Slice(d, 209, 217))
             speed_u == UnpackD(Slice(d, 217, 225))
         IN  [serial_number |-> SerialFallback(serial_number),
              device_type |-> device_type,
              app_lat |-> app[1],
              app_lon |-> app[2],
              drone_lat |-> UnpackD(Slice(d, 145, 153)),
              drone_lon |-> UnpackD(Slice(d, 153, 161)),
              height_agl |-> UnpackD(Slice(d, 161, 169)),
              geodetic_altitude |-> UnpackD(Slice(d, 169, 177)),
              horizontal_speed |-> HorizontalSpeed(speed_e, speed_n),
              vertical_speed |-> speed_u,
              rssi |-> Unpackh(Slice(d, 225, 227)),
              home_lat |-> home[1],
              home_lon |-> home[2],
              freq |-> UnpackD(Slice(d, 193, 201))]

\* A variant that fills a short payload with zero bytes and decodes it
parse_data_1_padded(d) ==
    parse_data_1_body(IF UnpacksAll(d) THEN d ELSE d \o Repeat(0, 227 - Len(d)))

\* parse_data_1: struct.error in the try block gives {}
parse_data_1(d) == IF ~UnpacksAll(d) THEN EmptyDict ELSE parse_data_1_body(d)

is_valid_latlon(lat, lon) ==
    -900 <= lat /\ lat <= 900 /\ -1800 <= lon /\ lon <= 1800 /\ lat # 0 /\ lon # 0

\* format_as_zmq_json, lines 254-265: whether the monitor position is used
UsedSensor(p, monitor_gps) ==
    /\ ~is_valid_latlon(p.drone_lat, p.drone_lon)
    /\ monitor_gps # None
    /\ is_valid_latlon(monitor_gps[1], monitor_gps[2])

\* format_as_zmq_json, lines 303-315: the System Message body
SystemBody(p) ==
    LET has_valid_pilot == is_valid_latlon(p.app_lat, p.app_lon)
        has_valid_home  == is_valid_latlon(p.home_lat, p.home_lon)
        keys == (IF has_valid_pilot THEN {"latitude", "longitude"} ELSE {})
                \cup (IF has_valid_home THEN {"home_lat", "home_lon"} ELSE {})
    IN  [k \in keys |->
            CASE k = "latitude"  -> p.app_lat
              [] k = "longitude" -> p.app_lon
              [] k = "home_lat"  -> p.home_lat
              [] k = "home_lon"  -> p.home_lon]

format_as_zmq_json(p, monitor_gps) ==
    IF IsEmptyDict(p) THEN <<>>
    ELSE LET used_sensor == UsedSensor(p, monitor_gps)
             d_lat == IF used_sensor THEN monitor_gps[1] ELSE p.drone_lat
             d_lon == IF used_sensor THEN monitor_gps[2] ELSE p.drone_lon
             basic == [msg |-> "Basic ID",
                       body |-> [id_type |-> "Serial Number (ANSI/CTA-2063-A)",
                                 id |-> IF used_sensor THEN ALERT_ID ELSE p.serial_number,
                                 description |-> p.device_type,
                                 RSSI |-> p.rssi]]
             location == [msg |-> "Location/Vector Message",
                          body |-> [latitude |-> d_lat,
                                    longitude |-> d_lon,
                                    geodetic_altitude |-> p.geodetic_altitude,
                                    height_agl |-> p.height_agl,
                                    speed |-> p.horizontal_speed,
                                    vert_speed |-> p.vertical_speed]]
             selfid == [msg |-> "Self-ID Message",
                        body |-> [text |-> IF used_sensor
                                           THEN p.device_type \o Str_alert_suffix
                                           ELSE p.device_type]]
             sysmsg == SystemBody(p)
             system == IF DOMAIN sysmsg # {}
                       THEN <<[msg |-> "System Message", body |-> sysmsg]>>
                       ELSE <<>>
             frequency == [msg |-> "Frequency Message",
                           body |-> [frequency |-> p.freq]]
         IN  <<basic, location, selfid>> \o system \o <<frequency>>

----------------------------------------------------------------------------
(* The inputs: payloads as the AntSDR lays them out (parse_data_1's offsets) *)

PadNul(b, n) == b \o Repeat(0, n - Len(b))

\* One telemetry record on the wire: 227 bytes
Payload(serial, device, pilot, drone, home, vel) ==
    PadNul(serial, 64) \o PadNul(device, 64) \o <<0>>
    \o PackD(pilot[1]) \o PackD(pilot[2])
    \o PackD(drone[1]) \o PackD(drone[2])
    \o PackD(120) \o PackD(350)
    \o PackD(home[1]) \o PackD(home[2])
    \o PackD(2437)
    \o PackD(vel[1]) \o PackD(vel[2]) \o PackD(vel[3])
    \o Packh(-67)

Serial_good   == <<49, 53, 56, 49, 70>>           \* "1581F"
Serial_spaces == Repeat(32, 10)                   \* ten spaces
Serial_four   == <<32, 65, 66, 67, 68, 32>>       \* " ABCD "
Serial_bad    == Repeat(255, 5)                   \* five bytes that are not UTF-8

Serials == {Serial_good, Serial_spaces, Serial_four, Serial_bad}

PilotPairs == {<<0, 0>>, <<0, 100>>, <<377, -1224>>, <<950, 100>>}
HomePairs  == {<<0, 0>>, <<100, 0>>, <<-900, 1800>>, <<100, -1801>>}
DronePairs == {<<0, 0>>, <<0, 100>>, <<377, -1224>>, <<5000, 100>>, <<100, 1801>>}
Velocities == {0, 300, 12000, 20000} \X {0, 400, 16000} \X {100, -25000}

\* What the cache can hold: poll_monitor_for_gps stores in-range pairs only
Caches == {None, <<0, 0, 0>>, <<0, 100, 5>>, <<377, -1224, 100>>, <<-900, 1800, 0>>}

FullPayloads ==
    {Payload(s, Str_Mavic, p, d, h, v) :
        s \in Serials, p \in PilotPairs, d \in DronePairs, h \in HomePairs,
        v \in Velocities}

SamplePayload ==
    Payload(Serial_good, Str_Mavic, <<377, -1224>>, <<378, -1225>>, <<376, -1223>>,
            <<300, 400, 100>>)

\* Every shorter payload, and a longer one
OtherPayloads ==
    {Slice(SamplePayload \o <<1, 2, 3>>, 0, n) : n \in (0..226) \cup {230}}

----------------------------------------------------------------------------
(* dji_receiver.tcp_client, lines 375-379: one payload through the pipeline *)

Decode(d, monitor_gps) ==
    /\ decoded' = TRUE
    /\ data' = d
    /\ parsed_data' = parse_data_1(d)
    /\ zmq_message_list' = format_as_zmq_json(parse_data_1(d), monitor_gps)

IdleJson ==
    /\ pc = "connect" /\ wire = <<>> /\ peer = "none" /\ published = <<>>
    /\ sent = <<>> /\ handed = <<>> /\ why = "start" /\ slept = FALSE
    /\ budget = 0 /\ reads = 0 /\ frame = <<>>

IdleFmt ==
    /\ decoded = FALSE /\ data = <<>> /\ parsed_data = EmptyDict
    /\ zmq_message_list = <<>>

IdleCot ==
    /\ cot_pc = "connect" /\ cot_wire = <<>> /\ cot_peer = "none" /\ cot_sent = <<>>
    /\ cot_budget = 0 /\ utcnow = 0

\* The pipeline on one payload and one cache content
InitFormat ==
    /\ IdleJson /\ IdleCot
    /\ decoded = FALSE
    /\ data \in FullPayloads \cup OtherPayloads
    /\ parsed_data = EmptyDict
    /\ zmq_message_list = <<>>
    /\ _last_sensor_gps \in Caches
    /\ monq = <<>> /\ feeds = 0

DecodePayload ==
    /\ ~decoded
    /\ Decode(data, _last_sensor_gps)
    /\ UNCHANGED <<jsonVars, monVars, cotVars>>

NextFormat == DecodePayload

SpecFormat == InitFormat /\ [][NextFormat]_vars

----------------------------------------------------------------------------
(* dji_receiver.py: the monitor feed and the cache *)

\* A JSON value: a number, or anything else (a string, null, a missing key)
Num(v) == [t |-> "num", v |-> v]
NotNum == [t |-> "other", v |-> 0]

\* isinstance(x, (int, float))
IsNumber(x) == x.t = "num"

\* A monitor message, by what json.loads makes of it:
\*   "undecodable"  recv_string cannot decode the bytes
\*   "garbage"      not JSON: json.loads raises
\*   "list"         JSON, but not an object: obj.get raises
\*   "no_gps"       an object without gps_data
\*   "gps_scalar"   an object whose gps_data is not an object: gpsd.get raises
\*   "gps"          an object whose gps_data holds latitude, longitude, altitude
MonMsg(kind, lat, lon, alt) == [kind |-> kind, lat |-> lat, lon |-> lon, alt |-> alt]

Shapeless(kind) == MonMsg(kind, NotNum, NotNum, NotNum)

\* A variant that stores the candidate without the range check
StoreCandidate_unchecked(cache, msg) ==
    IF msg.kind = "gps" /\ IsNumber(msg.lat) /\ IsNumber(msg.lon)
    THEN <<msg.lat.v, msg.lon.v, IF IsNumber(msg.alt) THEN msg.alt.v ELSE 0>>
    ELSE cache

\* poll_monitor_for_gps, lines 224-234: one received message
StoreCandidate(cache, msg) ==
    IF /\ msg.kind = "gps"
       /\ IsNumber(msg.lat) /\ IsNumber(msg.lon)
       /\ -900 <= msg.lat.v /\ msg.lat.v <= 900
       /\ -1800 <= msg.lon.v /\ msg.lon.v <= 1800
    THEN <<msg.lat.v, msg.lon.v, IF IsNumber(msg.alt) THEN msg.alt.v ELSE 0>>
    ELSE cache

\* poll_monitor_for_gps, lines 220-239: up to n messages are received without
\* blocking; an empty queue (zmq.Again) or a message recv_string cannot decode
\* ends the loop.  Gives <<cache, queue>>.
RECURSIVE Drain(_, _, _)
Drain(cache, q, n) ==
    IF n = 0 \/ q = <<>> THEN <<cache, q>>
    ELSE IF Head(q).kind = "undecodable" THEN <<cache, Tail(q)>>
    ELSE Drain(StoreCandidate(cache, Head(q)), Tail(q), n - 1)

poll_monitor_for_gps ==
    /\ _last_sensor_gps' = Drain(_last_sensor_gps, monq, DRAIN)[1]
    /\ monq' = Drain(_last_sensor_gps, monq, DRAIN)[2]
    /\ UNCHANGED feeds

\* The monitor publishes a message
MonitorSend(msgs) ==
    /\ feeds > 0
    /\ feeds' = feeds - 1
    /\ \E m \in msgs : monq' = Append(monq, m)
    /\ UNCHANGED _last_sensor_gps

MonitorMessages ==
    {Shapeless("undecodable"), Shapeless("garbage"), Shapeless("list"),
     Shapeless("no_gps"), Shapeless("gps_scalar"),
     MonMsg("gps", Num(377), Num(-1224), Num(100)),
     MonMsg("gps", Num(0), Num(0), Num(0)),
     MonMsg("gps", Num(0), Num(100), NotNum),
     MonMsg("gps", Num(910), Num(100), Num(5)),
     MonMsg("gps", Num(100), Num(-1801), Num(5)),
     MonMsg("gps", NotNum, Num(100), Num(5)),
     MonMsg("gps", Num(-900), NotNum, Num(5))}

\* The poll alone, on any backlog of the feed
InitMonitor ==
    /\ IdleJson /\ IdleFmt /\ IdleCot
    /\ _last_sensor_gps = None
    /\ monq = <<>> /\ feeds = MaxBacklog

MonitorPublishes ==
    /\ MonitorSend(MonitorMessages)
    /\ UNCHANGED <<jsonVars, fmtVars, cotVars>>

PollMonitor ==
    /\ monq # <<>>
    /\ poll_monitor_for_gps
    /\ UNCHANGED <<jsonVars, fmtVars, cotVars>>

NextMonitor == MonitorPublishes \/ PollMonitor

SpecMonitor == InitMonitor /\ [][NextMonitor]_vars

\* The poll on a backlog longer than one drain: the monitor publishes while the
\* worker is blocked in recv (tcp_client line 368), and the next iteration
\* polls (line 366)
BacklogMessages ==
    {MonMsg("gps", Num(377), Num(-1224), Num(100)),
     MonMsg("gps", Num(378), Num(-1225), Num(101)),
     MonMsg("gps", Num(910), Num(100), Num(5))}

InitBacklog ==
    /\ IdleJson /\ IdleFmt /\ IdleCot
    /\ _last_sensor_gps = None
    /\ monq = <<>> /\ feeds = MaxPending

BacklogPublishes ==
    /\ MonitorSend(BacklogMessages)
    /\ UNCHANGED <<jsonVars, fmtVars, cotVars>>

NextBacklog == BacklogPublishes \/ PollMonitor

SpecBacklog == InitBacklog /\ [][NextBacklog]_vars

----------------------------------------------------------------------------
(* dji_receiver.tcp_client: the worker, its peer and the monitor *)

\* A frame: a 2-byte marker, the package type, the total length, the payload
Frame(package_type, payload) ==
    <<90, 165, package_type>> \o PackH(Len(payload) + 5) \o payload

LostPayload ==
    Payload(Serial_good, Str_Mavic, <<0, 0>>, <<5000, 100>>, <<0, 0>>,
            <<300, 400, 100>>)

WorkerFrames ==
    {Frame(1, SamplePayload), Frame(1, LostPayload), Frame(1, <<7, 7, 7>>),
     Frame(2, <<9>>)}

WorkerMonitorMessages == {MonMsg("gps", Num(377), Num(-1224), Num(100))}

\* What one recv(1024) may return of the unread bytes w: any prefix up to 1024
\* bytes; the model tries the short ones, whole frames and everything unread
ReadSizes(w) ==
    {k \in 1..Min(Len(w), RECV_SIZE) :
        k <= SmallRead \/ k = Len(w) \/ k \in {Len(f) : f \in WorkerFrames}}

Init ==
    /\ pc = "connect" /\ wire = <<>> /\ peer = "none" /\ published = <<>>
    /\ sent = <<>> /\ handed = <<>> /\ why = "start" /\ slept = FALSE
    /\ budget = MaxFrames /\ reads = MaxReads /\ frame = <<>>
    /\ IdleFmt /\ IdleCot
    /\ _last_sensor_gps = None
    /\ monq = <<>> /\ feeds = MaxMonitor

\* The socket is closed: the with block is left (lines 360-390)
CloseSocket(reason) ==
    /\ peer' = "none"
    /\ wire' = <<>> /\ sent' = <<>> /\ handed' = <<>>
    /\ why' = reason
    /\ slept' = FALSE

\* lines 360-362: connect succeeds
Connected ==
    /\ pc = "connect"
    /\ pc' = "poll"
    /\ peer' = "up"
    /\ wire' = <<>> /\ sent' = <<>> /\ handed' = <<>>
    /\ why' = "open" /\ slept' = FALSE
    /\ UNCHANGED <<published, budget, reads, frame, fmtVars, monVars, cotVars>>

\* lines 361, 383-386: connect raises ConnectionRefusedError
ConnectRefused ==
    /\ pc = "connect"
    /\ pc' = "sleep"
    /\ CloseSocket("refused")
    /\ UNCHANGED <<published, budget, reads, frame, fmtVars, monVars, cotVars>>

\* lines 385-386, 389-390: time.sleep(5); continue
Sleep ==
    /\ pc = "sleep"
    /\ pc' = "connect"
    /\ slept' = TRUE
    /\ UNCHANGED <<wire, peer, published, sent, handed, why, budget, reads, frame,
                   fmtVars, monVars, cotVars>>

\* line 366
Poll ==
    /\ pc = "poll"
    /\ pc' = "recv"
    /\ poll_monitor_for_gps
    /\ UNCHANGED <<wire, peer, published, sent, handed, why, slept, budget, reads, frame,
                   fmtVars, cotVars>>

\* A variant that sends the message again after sending it
send_zmq_message_twice(message_list) ==
    published' = Append(Append(published, message_list), message_list)

\* send_zmq_message, lines 332-337: the message is sent, or send_string raises
\* and the failure is logged
send_zmq_message(message_list) ==
    \/ published' = Append(published, message_list)
    \/ published' = published

\* lines 373-381: the frame just read goes through parse_frame, parse_data_1,
\* format_as_zmq_json and send_zmq_message; an IndexError of parse_frame is
\* caught at line 387, after the with block closed the socket
HandleFrame ==
    /\ pc = "handle"
    /\ frame' = <<>>
    /\ LET r == parse_frame(frame) IN
       \/ /\ r.result = "IndexError"
          /\ pc' = "sleep"
          /\ CloseSocket("exception")
          /\ UNCHANGED published
       \/ /\ r.result = "None"
          /\ pc' = "poll"
          /\ UNCHANGED <<wire, peer, why, slept, published, sent, handed>>
       \/ /\ r.result = "ok"
          /\ pc' = "poll"
          /\ handed' = Append(handed, <<r.package_type, r.data>>)
          /\ UNCHANGED <<wire, peer, why, slept, sent>>
          /\ IF /\ r.package_type = 1 /\ r.data # <<>>
                /\ format_as_zmq_json(parse_data_1(r.data), _last_sensor_gps) # <<>>
             THEN send_zmq_message(
                      format_as_zmq_json(parse_data_1(r.data), _last_sensor_gps))
             ELSE published' = published
    /\ UNCHANGED <<budget, reads, fmtVars, monVars, cotVars>>

\* line 368: recv returns bytes
RecvFrame ==
    /\ pc = "recv"
    /\ peer \in {"up", "closed"}
    /\ wire # <<>>
    /\ reads > 0
    /\ reads' = reads - 1
    /\ \E k \in ReadSizes(wire) :
          /\ frame' = SubSeq(wire, 1, k)
          /\ wire' = SubSeq(wire, k + 1, Len(wire))
    /\ pc' = "handle"
    /\ UNCHANGED <<peer, published, sent, handed, why, slept, budget, fmtVars,
                   monVars, cotVars>>

\* lines 368-371: recv returns b"" after the peer closed; break leaves the with
\* block and the outer loop reconnects
RecvClosed ==
    /\ pc = "recv"
    /\ peer = "closed"
    /\ wire = <<>>
    /\ pc' = "connect"
    /\ CloseSocket("eof")
    /\ UNCHANGED <<published, budget, reads, frame, fmtVars, monVars, cotVars>>

\* lines 368, 383-386: recv raises a socket.error (connection reset by peer)
RecvError ==
    /\ pc = "recv"
    /\ peer = "reset"
    /\ pc' = "sleep"
    /\ CloseSocket("reset")
    /\ UNCHANGED <<published, budget, reads, frame, fmtVars, monVars, cotVars>>

\* The AntSDR sends a complete frame
PeerSends ==
    /\ peer = "up"
    /\ budget > 0
    /\ \E f \in WorkerFrames :
          /\ wire' = wire \o f
          /\ sent' = Append(sent, f)
    /\ budget' = budget - 1
    /\ UNCHANGED <<pc, peer, published, handed, why, slept, reads, frame, fmtVars,
                   monVars, cotVars>>

\* The AntSDR closes the stream
PeerCloses ==
    /\ peer = "up"
    /\ peer' = "closed"
    /\ UNCHANGED <<pc, wire, published, sent, handed, why, slept, budget, reads, frame,
                   fmtVars, monVars, cotVars>>

\* The AntSDR resets the connection; unread bytes are lost
PeerResets ==
    /\ peer = "up"
    /\ peer' = "reset"
    /\ wire' = <<>>
    /\ UNCHANGED <<pc, published, sent, handed, why, slept, budget, reads, frame,
                   fmtVars, monVars, cotVars>>

MonitorFeeds ==
    /\ MonitorSend(WorkerMonitorMessages)
    /\ UNCHANGED <<jsonVars, fmtVars, cotVars>>

Next ==
    \/ Connected \/ ConnectRefused \/ Sleep \/ Poll
    \/ RecvFrame \/ HandleFrame \/ RecvClosed \/ RecvError
    \/ PeerSends \/ PeerCloses \/ PeerResets
    \/ MonitorFeeds

Spec == Init /\ [][Next]_vars

----------------------------------------------------------------------------
(* djidrone_cot.py: the CoT worker *)

Str_Drone == <<68, 114, 111, 110, 101>>
Str_dash_Drone == <<45>> \o Str_Drone

\* parse_frame has no handler: IndexError (fewer than 3 bytes) and struct.error
\* (frame[3:5] shorter than 2 bytes) both leave it
cot_parse_frame(fr) ==
    IF Len(fr) < 3 THEN [result |-> "IndexError"]
    ELSE IF ~CanUnpack(Slice(fr, 3, 5), 2) THEN [result |-> "struct.error"]
    ELSE LET package_length == UnpackH(Slice(fr, 3, 5))
         IN  [result |-> "ok",
              package_type |-> fr[3],
              data |-> Slice(fr, 5, 5 + package_length - 5)]

\* parse_data returns a record only when every statement of its try block
\* succeeds: a UnicodeDecodeError is caught, but the return statement then reads
\* names that were never bound (UnboundLocalError); data[128] raises IndexError
\* and a short slice struct.error, which are not caught.
cot_parse_data_returns(d) ==
    /\ CanDecodeStrict(Slice(d, 0, 64))
    /\ CanDecodeStrict(Slice(d, 64, 128))
    /\ Len(d) > 128
    /\ UnpacksAll(d)

cot_parse_data(d) ==
    [serial_number |-> RStripNul(Slice(d, 0, 64)),
     device_type |-> RStripNul(Slice(d, 64, 128)),
     drone_lat |-> UnpackD(Slice(d, 145, 153)),
     drone_lon |-> UnpackD(Slice(d, 153, 161))]

\* str.replace(" ", "_")
SpacesToUnderscores(t) == [i \in 1..Len(t) |-> IF t[i] = 32 THEN 95 ELSE t[i]]

\* strftime('%Y-%m-%dT%H:%M:%S.995Z'): the whole seconds of t followed by the
\* literal .995, as milliseconds
Strftime(t) == (t \div 1000) * 1000 + 995

\* create_cot_xml_payload_point lines 75-76: utcnow() is read twice, at now1 for
\* time_stamp and at now2 for stale_time
time_stamp(now1) == Strftime(now1)
stale_time(now2) == Strftime(now2 + STALE_SECONDS * 1000)

\* tcp_client lines 185-214 and create_cot_xml_payload_point: the event's uid,
\* time, start, stale, point and callsign
cot_event(p, now1, now2) ==
    [uid |-> p.serial_number \o Str_dash_Drone,
     time |-> time_stamp(now1),
     start |-> time_stamp(now1),
     stale |-> stale_time(now2),
     lat |-> p.drone_lat,
     lon |-> p.drone_lon,
     callsign |-> IF p.device_type # <<>> THEN SpacesToUnderscores(p.device_type)
                  ELSE Str_Drone]

\* The clock at the second utcnow() of an event built from utcnow on
LaterReads == {utcnow, utcnow + TickMs}

BadTextPayload ==
    Payload(Serial_bad, Str_Mavic, <<377, -1224>>, <<378, -1225>>, <<376, -1223>>,
            <<300, 400, 100>>)

CotFrames ==
    {Frame(1, SamplePayload), Frame(1, LostPayload), Frame(1, BadTextPayload),
     Frame(1, <<7, 7, 7>>), Frame(2, <<9>>)}

CotReadSizes(w) ==
    {k \in 1..Min(Len(w), RECV_SIZE) :
        k <= SmallRead \/ k = Len(w) \/ k \in {Len(f) : f \in CotFrames}}

InitCot ==
    /\ IdleJson /\ IdleFmt
    /\ _last_sensor_gps = None /\ monq = <<>> /\ feeds = 0
    /\ cot_pc = "connect" /\ cot_wire = <<>> /\ cot_peer = "none" /\ cot_sent = <<>>
    /\ cot_budget = MaxCotFrames /\ utcnow = 0

\* lines 167-171: connect succeeds
CotConnected ==
    /\ cot_pc = "connect"
    /\ cot_pc' = "recv"
    /\ cot_peer' = "up"
    /\ UNCHANGED <<cot_wire, cot_budget, cot_sent, utcnow, jsonVars, fmtVars, monVars>>

\* lines 170, 227-231: connect raises; the error is logged, the socket closed
\* and tcp_client returns
CotConnectFails ==
    /\ cot_pc = "connect"
    /\ cot_pc' = "done"
    /\ UNCHANGED <<cot_wire, cot_peer, cot_budget, cot_sent, utcnow, jsonVars, fmtVars, monVars>>

\* lines 174-225: recv returns bytes, and the frame is handled
CotRecvFrame ==
    /\ cot_pc = "recv"
    /\ cot_wire # <<>>
    /\ \E k \in CotReadSizes(cot_wire) :
          LET r == cot_parse_frame(SubSeq(cot_wire, 1, k)) IN
          \/ /\ r.result # "ok"                       \* caught at line 227
             /\ cot_pc' = "done"
             /\ cot_peer' = "none" /\ cot_wire' = <<>>
             /\ UNCHANGED <<cot_sent, utcnow>>
          \/ /\ r.result = "ok"
             /\ r.package_type # 1
             /\ cot_wire' = SubSeq(cot_wire, k + 1, Len(cot_wire))
             /\ UNCHANGED <<cot_pc, cot_peer, cot_sent, utcnow>>
          \/ /\ r.result = "ok"
             /\ r.package_type = 1
             /\ ~cot_parse_data_returns(r.data)       \* caught at line 227
             /\ cot_pc' = "done"
             /\ cot_peer' = "none" /\ cot_wire' = <<>>
             /\ UNCHANGED <<cot_sent, utcnow>>
          \/ /\ r.result = "ok"
             /\ r.package_type = 1
             /\ cot_parse_data_returns(r.data)
             /\ cot_wire' = SubSeq(cot_wire, k + 1, Len(cot_wire))
             /\ \E later \in LaterReads :
                   /\ cot_sent' = Append(cot_sent,
                                         cot_event(cot_parse_data(r.data), utcnow, later))
                   /\ utcnow' = later
             /\ UNCHANGED <<cot_pc, cot_peer>>
    /\ UNCHANGED <<cot_budget, jsonVars, fmtVars, monVars>>

\* lines 174-176, 229-231: recv returns b""; break, close, return
CotRecvClosed ==
    /\ cot_pc = "recv"
    /\ cot_peer = "closed"
    /\ cot_wire = <<>>
    /\ cot_pc' = "done"
    /\ cot_peer' = "none"
    /\ UNCHANGED <<cot_wire, cot_budget, cot_sent, utcnow, jsonVars, fmtVars, monVars>>

CotPeerSends ==
    /\ cot_peer = "up"
    /\ cot_budget > 0
    /\ cot_budget' = cot_budget - 1
    /\ \E f \in CotFrames : cot_wire' = cot_wire \o f
    /\ UNCHANGED <<cot_pc, cot_peer, cot_sent, utcnow, jsonVars, fmtVars, monVars>>

CotPeerCloses ==
    /\ cot_peer = "up"
    /\ cot_peer' = "closed"
    /\ UNCHANGED <<cot_pc, cot_wire, cot_budget, cot_sent, utcnow, jsonVars, fmtVars, monVars>>

\* Time passes
ClockTick ==
    /\ utcnow < MaxClock
    /\ utcnow' = utcnow + TickMs
    /\ UNCHANGED <<cot_pc, cot_wire, cot_peer, cot_budget, cot_sent, jsonVars, fmtVars,
                   monVars>>

NextCot ==
    \/ CotConnected \/ CotConnectFails \/ CotRecvFrame \/ CotRecvClosed
    \/ CotPeerSends \/ CotPeerCloses \/ ClockTick

SpecCot == InitCot /\ [][NextCot]_vars

----------------------------------------------------------------------------
(* Both workers on the same record: dji_receiver.tcp_client lines 375-379 and *)
(* djidrone_cot.tcp_client lines 178-224 each handle the payload in data       *)

InitPair ==
    /\ IdleJson
    /\ decoded = FALSE
    /\ data \in FullPayloads \cup OtherPayloads
    /\ parsed_data = EmptyDict
    /\ zmq_message_list = <<>>
    /\ _last_sensor_gps \in Caches
    /\ monq = <<>> /\ feeds = 0
    /\ cot_pc = "recv" /\ cot_wire = <<>> /\ cot_peer = "up" /\ cot_sent = <<>>
    /\ cot_budget = 0 /\ utcnow = 0

\* djidrone_cot.tcp_client lines 179-224 on the payload: parse_data returns
\* and the event goes to send_cot_payload
CotEmits ==
    /\ cot_pc = "recv"
    /\ cot_sent = <<>>
    /\ cot_parse_data_returns(data)
    /\ \E later \in LaterReads :
          /\ cot_sent' = <<cot_event(cot_parse_data(data), utcnow, later)>>
          /\ utcnow' = later
    /\ UNCHANGED <<cot_pc, cot_wire, cot_peer, cot_budget, jsonVars, fmtVars, monVars>>

\* lines 180, 227-231: parse_data raises; the worker logs, closes and returns
CotRaises ==
    /\ cot_pc = "recv"
    /\ ~cot_parse_data_returns(data)
    /\ cot_pc' = "done"
    /\ cot_peer' = "none"
    /\ UNCHANGED <<cot_wire, cot_budget, cot_sent, utcnow, jsonVars, fmtVars, monVars>>

NextPair == DecodePayload \/ CotEmits \/ CotRaises

SpecPair == InitPair /\ [][NextPair]_vars

----------------------------------------------------------------------------
(* CLAIMS *)

\* Validity of a coordinate pair as the specification words it: within range
\* and not both zero
ValidAsClaimed(lat, lon) == InRange(lat, lon) /\ ~(lat = 0 /\ lon = 0)

\* A record was decoded and formatted
Formatted == decoded /\ ~IsEmptyDict(parsed_data)

\* The pairs as they are on the wire
WirePilot == <<UnpackD(Slice(data, 129, 137)), UnpackD(Slice(data, 137, 145))>>
WireDrone == <<UnpackD(Slice(data, 145, 153)), UnpackD(Slice(data, 153, 161))>>
WireHome  == <<UnpackD(Slice(data, 177, 185)), UnpackD(Slice(data, 185, 193))>>
WireVel   == <<UnpackD(Slice(data, 201, 209)), UnpackD(Slice(data, 209, 217)),
               UnpackD(Slice(data, 217, 225))>>

\* C1: a record whose drone position is invalid (out of range or zero), formatted
\* while the cache holds a valid non-zero position, carries the cached latitude
\* and longitude, the Self-ID alert suffix and the Basic-ID 'drone-alert'.
C1_InvalidDroneTakesCachedPosition ==
    (/\ Formatted
     /\ ~ValidAsClaimed(WireDrone[1], WireDrone[2])
     /\ _last_sensor_gps # None
     /\ ValidAsClaimed(_last_sensor_gps[1], _last_sensor_gps[2]))
    => /\ zmq_message_list[2].body.latitude = _last_sensor_gps[1]
       /\ zmq_message_list[2].body.longitude = _last_sensor_gps[2]
       /\ zmq_message_list[1].body.id = ALERT_ID
       /\ zmq_message_list[3].body.text = parsed_data.device_type \o Str_alert_suffix

\* C2: is_valid_latlon(lat, lon) is true iff lat and lon are within range and
\* not both zero, for the pilot, the home and the drone pair alike.
C2_ValidIffInRangeAndNotBothZero ==
    Formatted =>
        \A pair \in {WirePilot, WireDrone, WireHome} :
            is_valid_latlon(pair[1], pair[2]) <=> ValidAsClaimed(pair[1], pair[2])

\* The last of the candidates msgs that is a pair of numbers within range, as a
\* cache entry; the entry cache when there is none
RECURSIVE LastInRange(_, _)
LastInRange(msgs, cache) ==
    IF msgs = <<>> THEN cache
    ELSE LET m == msgs[Len(msgs)]
         IN  IF /\ m.kind = "gps" /\ IsNumber(m.lat) /\ IsNumber(m.lon)
                /\ InRange(m.lat.v, m.lon.v)
             THEN <<m.lat.v, m.lon.v, IF IsNumber(m.alt) THEN m.alt.v ELSE 0>>
             ELSE LastInRange(SubSeq(msgs, 1, Len(msgs) - 1), cache)

\* The messages a step took off the monitor queue
Consumed == SubSeq(monq, 1, Len(monq) - Len(monq'))

\* C3 (as claimed): the cache is empty or holds a position within range and
\* not (0,0).
C3_CacheNeverHoldsZeroPosition ==
    _last_sensor_gps # None =>
        ValidAsClaimed(_last_sensor_gps[1], _last_sensor_gps[2])

\* What poll_monitor_for_gps keeps in place of C3: the cache is empty or holds
\* a position within range, (0,0) included; every step leaves in it the last consumed candidate whose latitude
\* and longitude are numbers within range, whole (with its altitude, or 0), and
\* leaves it unchanged when no consumed candidate is one.
C3_CacheHoldsLastInRangeCandidate ==
    [][/\ _last_sensor_gps' # None =>
              InRange(_last_sensor_gps'[1], _last_sensor_gps'[2])
       /\ Len(monq') <= Len(monq) =>
              _last_sensor_gps' = LastInRange(Consumed, _last_sensor_gps)
       /\ Len(monq') > Len(monq) => _last_sensor_gps' = _last_sensor_gps]_vars

\* The case C3 is about: the poll consumed the in-range candidate (0,0) and stored it
C3_Witness == _last_sensor_gps = <<0, 0, 0>> /\ monq = <<>> /\ feeds < MaxBacklog

\* What parse_frame makes of the frame being handled
Parsed == parse_frame(frame)

\* The worker is about to handle the frame a read delivered
Handling == pc = "handle"

\* The step in which it does
HandleStep == pc = "handle" /\ pc' # "handle"

\* C4: a package-type 0x01 payload shorter than 227 bytes decodes to the error
\* outcome (the empty record, nothing partial), nothing is published for it,
\* the cache is unchanged and the worker goes on to the next read on the same
\* connection.
C4_ShortPayloadIsDropped ==
    [][(/\ HandleStep
        /\ Parsed.result = "ok"
        /\ Parsed.package_type = 1
        /\ Len(Parsed.data) < 227)
       => /\ parse_data_1(Parsed.data) = EmptyDict
          /\ format_as_zmq_json(parse_data_1(Parsed.data), _last_sensor_gps) = <<>>
          /\ published' = published
          /\ _last_sensor_gps' = _last_sensor_gps
          /\ pc' = "poll"
          /\ peer' = peer /\ peer' # "none"
          /\ wire' = wire]_vars

\* C4's case: a complete frame with a 3-byte payload of package type 0x01 is
\* being handled while the next frame is already on the wire
C4_Witness ==
    /\ Handling
    /\ frame = Frame(1, <<7, 7, 7>>)
    /\ wire = Frame(1, SamplePayload)
    /\ peer = "up"

\* C7: no reconnect attempt follows a disconnection (a zero-length read, a
\* connection error or refusal) without an intervening backoff wait.
C7_BackoffBeforeEveryReconnect ==
    (pc = "connect" /\ why \in {"eof", "reset", "refused", "exception"}) => slept

\* C8: no worker (the JSON worker, the CoT worker) is ever brought to a
\* terminated state by a data-quality or transient-network fault.
C8_NoWorkerTerminates == pc # "done" /\ cot_pc # "done"

\* C9: when every byte the peer sent has been read and handled, the frames handed
\* to the decoder are exactly the frames sent, each once and in order, with the
\* L-5 bytes after the header as payload.
C9_HandedFramesAreSentFrames ==
    (pc \in {"poll", "recv"} /\ peer \in {"up", "closed"} /\ wire = <<>>)
    => handed = [i \in 1..Len(sent) |->
                    <<sent[i][3], SubSeq(sent[i], 6, UnpackH(SubSeq(sent[i], 4, 5)))>>]

\* A read that holds less than one frame: too few bytes for the type and length
\* fields, or fewer bytes than the declared length
Incomplete(fr) == Len(fr) < 5 \/ Len(fr) < UnpackH(SubSeq(fr, 4, 5))

\* C10: an incomplete frame is discarded, nothing is published and the worker
\* reads on on the same connection: the stream is not closed and no reconnect
\* is triggered.
C10_IncompleteFrameKeepsConnection ==
    [][(HandleStep /\ Incomplete(frame))
       => /\ published' = published
          /\ pc' = "poll"
          /\ peer' = peer /\ peer' # "none"]_vars

C6_JsonOrderAndSystemObject ==
    Formatted =>
        LET pv == ValidAsClaimed(WirePilot[1], WirePilot[2])
            hv == ValidAsClaimed(WireHome[1], WireHome[2])
            kinds == [i \in 1..Len(zmq_message_list) |-> zmq_message_list[i].msg]
        IN  /\ kinds = <<"Basic ID", "Location/Vector Message", "Self-ID Message">>
                       \o (IF pv \/ hv THEN <<"System Message">> ELSE <<>>)
                       \o <<"Frequency Message">>
            /\ (pv \/ hv) =>
                   /\ "latitude" \in DOMAIN zmq_message_list[4].body <=> pv
                   /\ "longitude" \in DOMAIN zmq_message_list[4].body <=> pv
                   /\ "home_lat" \in DOMAIN zmq_message_list[4].body <=> hv
                   /\ "home_lon" \in DOMAIN zmq_message_list[4].body <=> hv

\* C11: for one record handled by both workers, the CoT event's point is the
\* drone position of the JSON Location/Vector object (the one position
\* resolution chose) and the CoT uid is derived from the serial number the JSON
\* Basic-ID carries.
C11_CotCarriesResolvedPositionAndSerial ==
    (Formatted /\ cot_sent # <<>>)
    => /\ cot_sent[1].lat = zmq_message_list[2].body.latitude
       /\ cot_sent[1].lon = zmq_message_list[2].body.longitude
       /\ cot_sent[1].uid = zmq_message_list[1].body.id \o Str_dash_Drone

\* C12: the stale time of every emitted CoT event is exactly 75 seconds after
\* the start time of the same event, also when the clock advances while the
\* event is built.
C12_StaleIs75SecondsAfterStart ==
    \A i \in 1..Len(cot_sent) :
        cot_sent[i].stale = cot_sent[i].start + STALE_SECONDS * 1000

\* The serial number field as decoded: the first 64 bytes as text, without the
\* NUL padding at its end
WireSerial ==
    LET t == DecodeReplace(Slice(data, 0, 64))
        kept == {n \in 0..Len(t) : \A i \in (n + 1)..Len(t) : t[i] = 0}
    IN  SubSeq(t, 1, CHOOSE n \in kept : \A m \in kept : n <= m)

\* The characters of s from its first to its last character that is not
\* whitespace
Trimmed(s) ==
    LET solid == {i \in 1..Len(s) : ~IsSpace(s[i])}
    IN  IF solid = {} THEN <<>>
        ELSE SubSeq(s, CHOOSE i \in solid : \A j \in solid : i <= j,
                       CHOOSE i \in solid : \A j \in solid : i >= j)

\* The record is published with the drone's own position: no alert suffix on
\* the Self-ID text, the decoded position in the Location/Vector object
OwnPositionUsed ==
    /\ zmq_message_list[3].body.text = parsed_data.device_type
    /\ zmq_message_list[2].body.latitude = WireDrone[1]
    /\ zmq_message_list[2].body.longitude = WireDrone[2]

\* C13: when the serial number, without NUL padding and surrounding whitespace,
\* has fewer than 5 characters the published serial is 'drone-alert';
\* otherwise, when the drone's own position is used, it is the decoded serial
\* number.
C13_ShortSerialBecomesAlert ==
    Formatted =>
        /\ Len(Trimmed(WireSerial)) < 5 => zmq_message_list[1].body.id = ALERT_ID
        /\ (Len(Trimmed(WireSerial)) >= 5 /\ OwnPositionUsed)
               => zmq_message_list[1].body.id = WireSerial

\* C13's case: ten spaces and NULs as serial number, published as 'drone-alert'
\* with the drone's own position
C13_Witness ==
    /\ Formatted
    /\ WireSerial = Serial_spaces
    /\ OwnPositionUsed
    /\ is_valid_latlon(WireDrone[1], WireDrone[2])
    /\ zmq_message_list[1].body.id = ALERT_ID

\* The frame being handled is of package type 0x01 and decodes successfully
DecodesOk ==
    /\ Parsed.result = "ok"
    /\ Parsed.package_type = 1
    /\ Parsed.data # <<>>
    /\ ~IsEmptyDict(parse_data_1(Parsed.data))

\* C14: a package-type 0x01 frame that decodes successfully is published at
\* most once (one attempt, which may fail), in the step that handles it and so
\* before the next read; no other step publishes anything, so nothing is
\* published twice or retried and the publishes are in the order of the reads.
C14_OnePublishPerDecodedFrame ==
    [][/\ (HandleStep /\ DecodesOk)
          => \/ published' = published
             \/ published' =
                    Append(published,
                           format_as_zmq_json(parse_data_1(Parsed.data),
                                              _last_sensor_gps))
       /\ ~(HandleStep /\ DecodesOk) => published' = published]_vars

\* C14's case: two frames were read, decoded and published one after the other
C14_Witness ==
    /\ Len(handed) = 2
    /\ handed[1] = <<1, SamplePayload>>
    /\ handed[2] = <<1, LostPayload>>
    /\ Len(published) = 2
    /\ published[1][2].body.latitude = 378
    /\ published[2][2].body.latitude \in {5000, 377}

\* The most recent valid position among the messages msgs, as a cache entry;
\* the entry cache when none of them holds one
RECURSIVE FreshestValid(_, _)
FreshestValid(msgs, cache) ==
    IF msgs = <<>> THEN cache
    ELSE LET m == msgs[Len(msgs)]
         IN  IF /\ m.kind = "gps" /\ IsNumber(m.lat) /\ IsNumber(m.lon)
                /\ ValidAsClaimed(m.lat.v, m.lon.v)
             THEN <<m.lat.v, m.lon.v, IF IsNumber(m.alt) THEN m.alt.v ELSE 0>>
             ELSE FreshestValid(SubSeq(msgs, 1, Len(msgs) - 1), cache)

\* C15: a poll drains at most 5 pending messages, and after it the cache holds
\* the most recent valid position among all the messages that were pending,
\* however many they were.
C15_CacheIsFreshestAfterPoll ==
    [][Len(monq') < Len(monq)
       => /\ Len(monq) - Len(monq') <= DRAIN
          /\ _last_sensor_gps' = FreshestValid(monq, _last_sensor_gps)]_vars

====
